---- MODULE Spec2Model ----
(***************************************************************************)
(* Model of backend/main.py: the two request handlers /api/analyze and     *)
(* /api/analyze-tech-stack, the job-service client ApifyClient, the        *)
(* technology lookup client BuiltWithClient and the users table they       *)
(* share.                                                                  *)
(*                                                                         *)
(* Conventions for Python values:                                          *)
(*   - a str that the code takes apart (a URL, a domain, a site name) is a *)
(*     sequence of one-character strings; other text is a TLA+ string;     *)
(*   - Optional[T] is a set: None is {}, a present value v is {v};         *)
(*   - a dict is a function whose DOMAIN is its set of keys; a dict that   *)
(*     came out of a JSON decoder holds every value in the Optional form   *)
(*     (JSON null is None);                                                *)
(*   - JSON text is [text |-> <<object, ...>>], each object a function     *)
(*     from keys to <<>> (null) or <<v>>.                                  *)
(***************************************************************************)
EXTENDS Integers, Sequences, FiniteSets, TLC

VARIABLES
    env,        \* process environment: credentials and the database client
    db,         \* the users table: user id -> row
    pc,         \* per request slot: where its handler is suspended
    req,        \* per request slot: endpoint, websites, userId
    loc,        \* per request slot: the handler's local variables
    calls,      \* per request slot: the external calls it has issued so far
    resp,       \* per request slot: the HTTP response, once returned
    served,     \* number of requests accepted so far
    scope,      \* what the world outside does in this behaviour: how many
                \* requests arrive, for how many status checks a job can stay
                \* in progress, and the records a job can produce
    lookup      \* the last direct call of BuiltWithClient.analyze_domain,
                \* None before the first one

vars == <<env, db, pc, req, loc, calls, resp, served, scope, lookup>>

-----------------------------------------------------------------------------
(* Bounds of the model *)

MaxRequests == 2      \* requests accepted in one behaviour
MaxInProgress == 2    \* status checks that find a job in progress, where bounded
MaxRecords == 2       \* records in one dataset returned by the job service

-----------------------------------------------------------------------------
(* Strings *)

S_https == <<"h","t","t","p","s",":","/","/">>
S_http == <<"h","t","t","p",":","/","/">>
S_www == <<"w","w","w",".">>
S_space == <<" ">>
S_dotcom == <<".","c","o","m">>
D_linkedin == <<"l","i","n","k","e","d","i","n",".","c","o","m">>
D_github == <<"g","i","t","h","u","b",".","c","o","m">>
D_medium == <<"m","e","d","i","u","m",".","c","o","m">>
D_facebook == <<"f","a","c","e","b","o","o","k",".","c","o","m">>
D_google == <<"g","o","o","g","l","e",".","c","o","m">>
U_github == <<"h","t","t","p","s",":","/","/","w","w","w",".","g","i","t","h","u","b",".","c","o","m">>
U_linkedin == <<"l","i","n","k","e","d","i","n",".","c","o","m">>
U_awww == <<"h","t","t","p",":","/","/","a","w","w","w",".","i","o">>
U_medium == <<"h","t","t","p","s",":","/","/","m","e","d","i","u","m",".","c","o","m">>
U_facebook == <<"h","t","t","p",":","/","/","w","w","w",".","f","a","c","e","b","o","o","k",".","c","o","m">>
U_google == <<"w","w","w",".","g","o","o","g","l","e",".","c","o","m">>
D_openai == <<"o","p","e","n","a","i",".","c","o","m">>
D_GitHub == <<"G","i","t","H","u","b",".","c","o","m">>
N_LinkedIn == <<"L","i","n","k","e","d","I","n">>
N_GitHub == <<"G","i","t","H","u","b">>
N_Medium == <<"M","e","d","i","u","m">>
N_OpenAI == <<"O","p","e","n"," ","A","I">>

\* str.replace(old, ""): every non-overlapping occurrence of old, scanning
\* from the left, is removed.
RECURSIVE StrRemove(_, _)
StrRemove(s, old) ==
    IF Len(s) < Len(old) THEN s
    ELSE IF SubSeq(s, 1, Len(old)) = old
         THEN StrRemove(SubSeq(s, Len(old) + 1, Len(s)), old)
         ELSE <<Head(s)>> \o StrRemove(Tail(s), old)

LowerChar(c) ==
    CASE c = "A" -> "a" [] c = "G" -> "g" [] c = "H" -> "h" [] c = "I" -> "i"
      [] c = "L" -> "l" [] c = "M" -> "m" [] c = "O" -> "o"
      [] OTHER -> c

\* str.lower()
StrLower(s) == [i \in 1..Len(s) |-> LowerChar(s[i])]

-----------------------------------------------------------------------------
(* Python values *)

None == {}
Some(v) == {v}
TheValue(o) == CHOOSE v \in o : TRUE

\* dict.get(key, default)
DictGet(d, k, default) == IF k \in DOMAIN d THEN d[k] ELSE default

\* dict.pop(key, None): the dict without the key
DictPop(d, k) == [x \in DOMAIN d \ {k} |-> d[x]]

RECURSIVE Flatten(_)
Flatten(ss) == IF ss = <<>> THEN <<>> ELSE Head(ss) \o Flatten(Tail(ss))

RECURSIVE SumSeq(_)
SumSeq(ns) == IF ns = <<>> THEN 0 ELSE Head(ns) + SumSeq(Tail(ns))

-----------------------------------------------------------------------------
(* The schema: Technology, BuiltWithResult, ApifyResult.  Of ApifyResult's  *)
(* fields the model keeps a required str (name), a required int            *)
(* (globalRank), an Optional int (companyEmployeesMax) and the Optional    *)
(* technology profile (builtwith_result).                                  *)

Technology(n, t) == [name |-> n, tag |-> t]

BuiltWithResult(d, techs) == [domain |-> d, technologies |-> techs]

RequiredFields == {"name", "globalRank"}
OptionalFields == {"companyEmployeesMax", "builtwith_result"}

\* ApifyResult(**d) for a decoded dict d: a one-element list holding the
\* validated object, or the empty list when validation raises.  A required
\* field must be present and not None; an absent Optional field defaults to
\* None; keys the schema does not know are ignored.
ApifyResult(d) ==
    IF \A f \in RequiredFields : f \in DOMAIN d /\ d[f] # None
    THEN << [name |-> TheValue(d["name"]),
             globalRank |-> TheValue(d["globalRank"]),
             companyEmployeesMax |-> DictGet(d, "companyEmployeesMax", None),
             builtwith_result |-> DictGet(d, "builtwith_result", None)] >>
    ELSE <<>>

\* item.model_dump(): the dict of all the object's fields
model_dump(item) ==
    [k \in RequiredFields \cup OptionalFields |->
        CASE k = "name" -> Some(item.name)
          [] k = "globalRank" -> Some(item.globalRank)
          [] k = "companyEmployeesMax" -> item.companyEmployeesMax
          [] k = "builtwith_result" -> item.builtwith_result]

\* json.dumps of a list of dicts
JsonValue(o) == IF o = None THEN <<>> ELSE <<TheValue(o)>>
json_dumps(dicts) ==
    [text |-> [i \in 1..Len(dicts) |->
                 [k \in DOMAIN dicts[i] |-> JsonValue(dicts[i][k])]]]

\* json.loads of such a text
PyValue(j) == IF j = <<>> THEN None ELSE Some(j[1])
json_loads(s) ==
    [i \in 1..Len(s.text) |-> [k \in DOMAIN s.text[i] |-> PyValue(s.text[i][k])]]

\* the loop left out: the records keep their technology profiles
ClearBuiltWithSkipped(xs) == xs

\* for item in xs: item.builtwith_result = None
ClearBuiltWith(xs) == [i \in 1..Len(xs) |-> [xs[i] EXCEPT !.builtwith_result = None]]

-----------------------------------------------------------------------------
(* Mock data *)

LinkedInTechnologies ==
    << Technology("React", "JavaScript Frameworks"),
       Technology("Node.js", "Web Servers"),
       Technology("Amazon CloudFront", "CDN"),
       Technology("Google Analytics", "Analytics"),
       Technology("Nginx", "Web Servers"),
       Technology("Amazon Web Services", "Cloud Computing"),
       Technology("Bootstrap", "CSS Frameworks"),
       Technology("jQuery", "JavaScript Libraries") >>

GitHubTechnologies ==
    << Technology("Ruby on Rails", "Web Frameworks"),
       Technology("MySQL", "Databases"),
       Technology("Redis", "Caching"),
       Technology("Fastly", "CDN"),
       Technology("GitHub Analytics", "Analytics"),
       Technology("Amazon Web Services", "Cloud Computing"),
       Technology("Elasticsearch", "Search Engines"),
       Technology("JavaScript", "Programming Languages") >>

MediumTechnologies ==
    << Technology("Node.js", "Web Servers"),
       Technology("React", "JavaScript Frameworks"),
       Technology("Amazon CloudFront", "CDN"),
       Technology("Google Analytics", "Analytics"),
       Technology("Amazon Web Services", "Cloud Computing"),
       Technology("GraphQL", "APIs"),
       Technology("PostgreSQL", "Databases"),
       Technology("TypeScript", "Programming Languages") >>

FacebookTechnologies ==
    << Technology("React", "JavaScript Frameworks"),
       Technology("PHP", "Programming Languages"),
       Technology("MySQL", "Databases"),
       Technology("Memcached", "Caching"),
       Technology("Facebook CDN", "CDN"),
       Technology("Facebook Analytics", "Analytics"),
       Technology("HipHop", "Web Frameworks"),
       Technology("Cassandra", "Databases") >>

GoogleTechnologies ==
    << Technology("Go", "Programming Languages"),
       Technology("JavaScript", "Programming Languages"),
       Technology("Google Cloud CDN", "CDN"),
       Technology("Google Analytics", "Analytics"),
       Technology("Bigtable", "Databases"),
       Technology("Google Cloud Platform", "Cloud Computing"),
       Technology("V8", "JavaScript Engines"),
       Technology("Protocol Buffers", "APIs") >>

DefaultTechnologies ==
    << Technology("JavaScript", "Programming Languages"),
       Technology("HTML5", "Markup Languages"),
       Technology("CSS3", "Stylesheets"),
       Technology("Google Analytics", "Analytics"),
       Technology("Cloudflare", "CDN") >>

\* mock data for GitHub alone
get_mock_data_github_only ==
    << [name |-> N_GitHub, globalRank |-> 64,
        companyEmployeesMax |-> Some(5000),
        builtwith_result |-> Some(BuiltWithResult(D_github, GitHubTechnologies))] >>

\* get_mock_data(): the same two records on every call, each carrying a
\* technology profile
get_mock_data ==
    << [name |-> N_LinkedIn, globalRank |-> 27,
        companyEmployeesMax |-> Some(50000),
        builtwith_result |-> Some(BuiltWithResult(D_linkedin, LinkedInTechnologies))],
       [name |-> N_GitHub, globalRank |-> 64,
        companyEmployeesMax |-> Some(5000),
        builtwith_result |-> Some(BuiltWithResult(D_github, GitHubTechnologies))] >>

\* the mock table without its "medium.com" entry
MockBuiltWithDataNoMedium(domain) ==
    BuiltWithResult(domain,
        CASE domain = D_linkedin -> LinkedInTechnologies
          [] domain = D_github -> GitHubTechnologies
          [] domain = D_facebook -> FacebookTechnologies
          [] domain = D_google -> GoogleTechnologies
          [] OTHER -> DefaultTechnologies)

\* BuiltWithClient._get_mock_builtwith_data(domain)
MockBuiltWithData(domain) ==
    BuiltWithResult(domain,
        CASE domain = D_linkedin -> LinkedInTechnologies
          [] domain = D_github -> GitHubTechnologies
          [] domain = D_medium -> MediumTechnologies
          [] domain = D_facebook -> FacebookTechnologies
          [] domain = D_google -> GoogleTechnologies
          [] OTHER -> DefaultTechnologies)

-----------------------------------------------------------------------------
(* BuiltWithClient *)

\* clean_domain = domain.replace("https://", "").replace("http://", "").replace("www.", "")
CleanDomain(domain) == StrRemove(StrRemove(StrRemove(domain, S_https), S_http), S_www)

\* A value of the response that is not a dict is the marker NotADict.
NotADict == [notadict |-> TRUE]
IsDict(x) == "notadict" \notin DOMAIN x

\* technologies appended for one entry of a "Technologies" list under a
\* category (lines 436-444 and 453-464): a dict whose Name is non-empty and
\* not "Unknown"
TechOf(tech, category_name) ==
    IF IsDict(tech)
       /\ DictGet(tech, "Name", "Unknown") # ""
       /\ DictGet(tech, "Name", "Unknown") # "Unknown"
    THEN <<Technology(DictGet(tech, "Name", "Unknown"), category_name)>>
    ELSE <<>>

TechsOfList(techs, category_name) ==
    Flatten([i \in 1..Len(techs) |-> TechOf(techs[i], category_name)])

\* one entry of path["Technologies"] (lines 426-464)
TechsOfCategory(tech_category) ==
    IF ~IsDict(tech_category) THEN <<>>
    ELSE LET category_name == DictGet(tech_category, "Name", "Other")
             direct == IF "Technologies" \in DOMAIN tech_category
                       THEN TechsOfList(tech_category["Technologies"], category_name)
                       ELSE <<>>
             cats == IF "Categories" \in DOMAIN tech_category
                     THEN tech_category["Categories"]
                     ELSE <<>>
             nested == Flatten([i \in 1..Len(cats) |->
                          IF IsDict(cats[i])
                          THEN TechsOfList(DictGet(cats[i], "Technologies", <<>>),
                                           category_name)
                          ELSE <<>>])
         IN direct \o nested

\* one entry of result["Result"]["Paths"] (lines 421-464)
TechsOfPath(path) ==
    IF "Technologies" \in DOMAIN path
    THEN Flatten([i \in 1..Len(path["Technologies"]) |->
                    TechsOfCategory(path["Technologies"][i])])
    ELSE <<>>

\* the alternative structure result["Technologies"] (lines 467-478)
TechOfAlt(tech_item) ==
    IF ~IsDict(tech_item) THEN <<>>
    ELSE LET tech_name == DictGet(tech_item, "Name", DictGet(tech_item, "name", "Unknown"))
             category == DictGet(tech_item, "Category", DictGet(tech_item, "tag", "Other"))
         IN IF tech_name # "" /\ tech_name # "Unknown"
            THEN <<Technology(tech_name, category)>>
            ELSE <<>>

\* the list `technologies` when the try block of _parse_builtwith_response
\* ends, normally or by an exception (result.keys() raises when the first
\* entry of Results is not a dict)
ParsedTechnologies(data) ==
    IF "Results" \in DOMAIN data /\ Len(data["Results"]) > 0
    THEN LET result == data["Results"][1]
         IN IF ~IsDict(result) THEN <<>>
            ELSE LET paths == IF "Result" \in DOMAIN result
                                 /\ "Paths" \in DOMAIN result["Result"]
                              THEN result["Result"]["Paths"]
                              ELSE <<>>
                     found == Flatten([i \in 1..Len(paths) |-> TechsOfPath(paths[i])])
                 IN IF found = <<>> /\ "Technologies" \in DOMAIN result
                    THEN Flatten([i \in 1..Len(result["Technologies"]) |->
                                    TechOfAlt(result["Technologies"][i])])
                    ELSE found
    ELSE <<>>

\* the parser without its fallback: what was parsed is returned as it is
ParseBuiltWithResponseNoFallback(domain, data) ==
    BuiltWithResult(domain, ParsedTechnologies(data))

\* BuiltWithClient._parse_builtwith_response(domain, data)
ParseBuiltWithResponse(domain, data) ==
    IF ParsedTechnologies(data) = <<>>
    THEN MockBuiltWithData(domain)
    ELSE BuiltWithResult(domain, ParsedTechnologies(data))

\* api_key is None, the placeholder, or a real key
KeyUsable(api_key) == api_key # "none" /\ api_key # "your-builtwith-api-key-here"

\* the client whose last except clause is missing
LookupCaughtOnlyTimeout(kind) == kind = "timeout"

\* lines 396-403: the exceptions of the request that analyze_domain catches
LookupCaught(kind) == kind \in {"timeout", "error"}

\* whether analyze_domain ends by raising: the request is the only statement
\* that can, and it is made with a usable key only
LookupRaises(api_key, out) ==
    KeyUsable(api_key) /\ out.kind # "response" /\ ~LookupCaught(out.kind)

\* BuiltWithClient.analyze_domain(domain), given what the lookup service
\* does when it is called: out.kind is "response" (with status_code and
\* data), "timeout" or "error"
analyze_domain(api_key, domain, out) ==
    LET clean_domain == CleanDomain(domain)
    IN IF ~KeyUsable(api_key) THEN MockBuiltWithData(clean_domain)
       ELSE IF out.kind = "response" /\ out.status_code = 200
            THEN ParseBuiltWithResponse(clean_domain, out.data)
            ELSE MockBuiltWithData(clean_domain)

\* Responses of the lookup service
BW_Nested ==
    [Results |-> << [Result |-> [Paths |-> <<
        [Technologies |-> <<
            [Name |-> "Analytics",
             Technologies |-> << [Name |-> "Google Analytics"], [Name |-> "Unknown"],
                                 NotADict >>],
            NotADict,
            [Name |-> "CDN",
             Categories |-> << NotADict, [Technologies |-> << [Name |-> "Fastly"] >>] >>]
        >>] >>]] >>]

\* the shape the service documents: a technology has Name, Tag and a list
\* of category names
BW_Documented ==
    [Results |-> << [Result |-> [Paths |-> <<
        [Technologies |-> << [Name |-> "nginx", Tag |-> "Web Server",
                              Categories |-> << NotADict >>] >>] >>]] >>]

BW_Alt ==
    [Results |-> << [Technologies |-> << [name |-> "React", tag |-> "JavaScript Frameworks"],
                                         [Name |-> "Unknown"], NotADict >>] >>]

BW_NoResults == [Errors |-> <<>>]

BW_BadResult == [Results |-> << NotADict >>]

BuiltWithOutcomes ==
    { [kind |-> "response", status_code |-> 200, data |-> d] :
          d \in {BW_Nested, BW_Documented, BW_Alt, BW_NoResults, BW_BadResult} }
    \cup { [kind |-> "response", status_code |-> 403, data |-> BW_NoResults],
           [kind |-> "timeout", status_code |-> 0, data |-> BW_NoResults],
           [kind |-> "error", status_code |-> 0, data |-> BW_NoResults] }

-----------------------------------------------------------------------------
(* Exceptions and responses *)

Detail(text) == [text |-> text, status |-> "", cause |-> None]

HTTPException(code, detail) ==
    [type |-> "HTTPException", status_code |-> code, detail |-> detail]

TimeoutException == [type |-> "TimeoutException", status_code |-> 0, detail |-> Detail("")]

\* any other exception: a connection error, a KeyError on a response that
\* lacks the expected keys, a JSON decoding error
OtherException == [type |-> "Exception", status_code |-> 0, detail |-> Detail("")]

\* str(e), kept as a reference to e
Str(e) == [text |-> "str(e)", status |-> "", cause |-> Some(e)]

Note(words, error) == [words |-> words, error |-> error]

Step1Note ==
    Note(<<"Step", "1", "complete:", "SimilarWeb", "analysis", "ready.", "Click",
           "'Analyze", "Tech", "Stack'", "to", "continue.">>, None)

Step1FallbackNote(e) ==
    Note(<<"Step", "1", "complete", "(with", "fallback):", "SimilarWeb", "analysis",
           "ready.", "API", "Error:">>, Some(Str(e)))

Step2Note(total_technologies, n) ==
    [words |-> <<"Step", "2", "complete:", "BuiltWith", "analysis", "added.", "Found",
                 "technologies", "across", "websites.">>,
     error |-> None, total_technologies |-> total_technologies, websites |-> n]

\* AnalysisResponse(success=True, data=data, count=len(data), note=note)
AnalysisResponse(data, note) ==
    [status_code |-> 200, success |-> TRUE, data |-> data, count |-> Len(data),
     note |-> note]

\* the response FastAPI sends for an HTTPException that leaves the handler
ErrorResponse(e) ==
    [status_code |-> e.status_code, success |-> FALSE, data |-> <<>>, count |-> 0,
     note |-> Note(<<>>, Some(e.detail))]

EmptyWebsitesError ==
    HTTPException(400, Detail("Please provide an array of websites to analyze"))

-----------------------------------------------------------------------------
(* ApifyClient.analyze_domains *)

max_polls == 60

JobStatuses ==
    {"READY", "RUNNING", "SUCCEEDED", "FAILED", "ABORTING", "ABORTED", "TIMING-OUT",
     "TIMED-OUT"}

\* READY left out of the in-progress statuses
InProgressOnlyRunning(status) == status = "RUNNING"

\* line 174: the statuses on which the loop goes on
InProgress(status) == status \in {"RUNNING", "READY"}

\* a loop without an attempt bound: while True
LoopConditionForever(poll_count) == TRUE

\* an off-by-one loop condition
LoopConditionInclusive(poll_count) == poll_count <= max_polls

\* line 161: the loop condition
LoopCondition(poll_count) == poll_count < max_polls

\* lines 161-175, after a status check returned `status`: does the loop issue
\* another one
PollsAgain(poll_count, status) == InProgress(status) /\ LoopCondition(poll_count)

\* the check of the final status left out
AfterPollingAnyStatus(poll_count, status) ==
    IF poll_count >= max_polls
    THEN Some(HTTPException(504, Detail("Actor run timed out")))
    ELSE None

\* lines 177-183: what is raised once the loop is left, None when the run
\* goes on to the dataset
AfterPolling(poll_count, status) ==
    IF poll_count >= max_polls
    THEN Some(HTTPException(504, Detail("Actor run timed out")))
    ELSE IF status # "SUCCEEDED"
         THEN Some(HTTPException(500, [text |-> "Actor run failed with status: ",
                                       status |-> status, cause |-> None]))
         ELSE None

\* lines 217-220: what analyze_domains raises to its caller when e is raised
\* inside its try block
Reraise(e) ==
    IF e.type = "TimeoutException"
    THEN HTTPException(504, Detail("Request timeout"))
    ELSE HTTPException(500, Str(e))

\* lines 203-215: transformed_results, built by appending each record that
\* validates
RECURSIVE TransformLoop(_, _)
TransformLoop(results, transformed_results) ==
    IF results = <<>> THEN transformed_results
    ELSE TransformLoop(Tail(results), transformed_results \o ApifyResult(Head(results)))

\* each validated record put in front of the list instead of at its end
RECURSIVE TransformLoopPrepend(_, _)
TransformLoopPrepend(results, transformed_results) ==
    IF results = <<>> THEN transformed_results
    ELSE TransformLoopPrepend(Tail(results),
                              ApifyResult(Head(results)) \o transformed_results)

TransformResultsPrepend(results) == TransformLoopPrepend(results, <<>>)

TransformResults(results) == TransformLoop(results, <<>>)

\* Outcomes of the three kinds of request to the job service
CreateOutcomes ==
    { [kind |-> "response", status_code |-> c, has_id |-> TRUE] : c \in {201, 200, 402} }
    \cup { [kind |-> "response", status_code |-> 201, has_id |-> FALSE],
           [kind |-> "timeout", status_code |-> 0, has_id |-> FALSE],
           [kind |-> "error", status_code |-> 0, has_id |-> FALSE] }

StatusOutcomes ==
    { [kind |-> "response", status |-> s] : s \in JobStatuses }
    \cup { [kind |-> "malformed", status |-> ""],
           [kind |-> "timeout", status |-> ""],
           [kind |-> "error", status |-> ""] }

\* a job service whose every status check answers with an in-progress status
InProgressForever == { out \in StatusOutcomes : InProgress(out.status) }

\* Dataset records as the job service returns them
RawMedium ==
    [name |-> Some(N_Medium), globalRank |-> Some(120), companyEmployeesMax |-> None,
     url |-> Some(D_medium)]

RawOpenAI ==
    [name |-> Some(N_OpenAI), globalRank |-> Some(7), companyEmployeesMax |-> Some(900),
     builtwith_result |-> Some(BuiltWithResult(D_google, GoogleTechnologies))]

RawNoRank == [name |-> Some(N_GitHub), companyEmployeesMax |-> Some(5000)]

RawNullName == [name |-> None, globalRank |-> Some(64)]

RawPool == {RawMedium, RawOpenAI, RawNoRank, RawNullName}

RECURSIVE SeqsUpTo(_, _)
SeqsUpTo(S, n) ==
    IF n = 0 THEN {<<>>}
    ELSE SeqsUpTo(S, n - 1) \cup { Append(q, x) : q \in SeqsUpTo(S, n - 1), x \in S }

\* what the dataset request can give when the job's records come from `pool`
DatasetOutcomes(pool) ==
    { [kind |-> "response", status_code |-> 200, items |-> l] :
          l \in SeqsUpTo(pool, MaxRecords) }
    \cup { [kind |-> "response", status_code |-> 500, items |-> <<>>],
           [kind |-> "timeout", status_code |-> 0, items |-> <<>>],
           [kind |-> "error", status_code |-> 0, items |-> <<>>] }

\* the exception a request raises inside the try block, None when it returns
RequestException(out) ==
    CASE out.kind = "timeout" -> Some(TimeoutException)
      [] out.kind \in {"error", "malformed"} -> Some(OtherException)
      [] OTHER -> None

\* any 200 or 201 taken as success
CreateExceptionAccepts200(out) ==
    IF out.kind = "timeout" THEN Some(TimeoutException)
    ELSE IF out.kind # "response" THEN Some(OtherException)
    ELSE IF out.status_code \notin {200, 201}
         THEN Some(HTTPException(500, Detail("Failed to start actor run: ")))
         ELSE IF ~out.has_id THEN Some(OtherException) ELSE None

\* lines 139-155: what the job-creation step raises, None when the run id is
\* obtained
CreateException(out) ==
    IF out.kind # "response" THEN RequestException(out)
    ELSE IF out.status_code # 201
         THEN Some(HTTPException(500, Detail("Failed to start actor run: ")))
         ELSE IF ~out.has_id THEN Some(OtherException) ELSE None

\* lines 188-196: what the dataset step raises
FetchException(out) ==
    IF out.kind # "response" THEN RequestException(out)
    ELSE IF out.status_code # 200
         THEN Some(HTTPException(500, Detail("Failed to fetch results: ")))
         ELSE None

-----------------------------------------------------------------------------
(* The users table *)

Users == {"u1", "u2"}

\* u1 has a row in the table, u2 has none.
\* a row: whether it exists, and its similarweb_result column (<<>> is NULL).
\* written_by and written record the request that last wrote the column and
\* the objects it serialised.
NoRow == [exists |-> FALSE, similarweb_result |-> <<>>, written_by |-> "", written |-> <<>>]
EmptyRow == [exists |-> TRUE, similarweb_result |-> <<>>, written_by |-> "", written |-> <<>>]

\* the update without its .eq("id", u) filter: every row is written
DbUpdateAllRows(d, u, text, by, items) ==
    [v \in Users |-> IF d[v].exists
                     THEN [exists |-> TRUE, similarweb_result |-> <<text>>,
                           written_by |-> by, written |-> items]
                     ELSE d[v]]

\* supabase.table("users").update({"similarweb_result": text}).eq("id", u).execute()
DbUpdate(d, u, text, by, items) ==
    IF d[u].exists
    THEN [d EXCEPT ![u] = [exists |-> TRUE, similarweb_result |-> <<text>>,
                           written_by |-> by, written |-> items]]
    ELSE d

\* supabase.table("users").select("similarweb_result").eq("id", u).execute().data
DbSelect(d, u) ==
    IF d[u].exists THEN << [similarweb_result |-> d[u].similarweb_result] >> ELSE <<>>

DbOutcomes == {"ok", "raise"}

\* a save block that writes the records without their technology profiles
SaveResultsCleared(e, d, u, items, by, out) ==
    IF e.supabase /\ out = "ok"
    THEN DbUpdate(d, u, json_dumps([i \in 1..Len(items) |->
                                      model_dump(ClearBuiltWith(items)[i])]),
                  by, ClearBuiltWith(items))
    ELSE d

\* lines 599-602, 630-633, 661-664 and 772-775: the text handed to update(),
\* None when there is no client
SentValue(e, items) ==
    IF e.supabase
    THEN Some(json_dumps([i \in 1..Len(items) |-> model_dump(items[i])]))
    ELSE None

\* the "Save to Supabase" block (lines 597-607, 628-638, 659-669, 770-780):
\* the table after it
SaveResults(e, d, u, items, by, out) ==
    IF e.supabase /\ out = "ok"
    THEN DbUpdate(d, u, json_dumps([i \in 1..Len(items) |-> model_dump(items[i])]),
                  by, items)
    ELSE d

-----------------------------------------------------------------------------
(* Requests *)

Slots == {1, 2}

ANALYZE == "/api/analyze"
TECH_STACK == "/api/analyze-tech-stack"
Endpoints == {ANALYZE, TECH_STACK}

WebsiteLists ==
    { <<>>, <<U_github>>, <<U_linkedin, U_awww>>, <<U_awww, U_github, U_linkedin>> }

NoRequest == [endpoint |-> "", websites |-> <<>>, userId |-> ""]

NoCalls == [create |-> 0, status |-> 0, dataset |-> 0, lookup |-> 0, builtwith |-> 0,
            db_read |-> 0, db_write |-> 0]

\* run_status_code: the status code of the job-creation response;
\* poll_count, status: the polling loop's counter and the status of the last
\*   check; items: the dataset as fetched; returned / error: what
\*   analyze_domains returned or raised to the handler;
\* read: the row's written_by and written when the tech-stack handler read it;
\*   base: its results before enrichment; results, i: the enrichment loop
InitLoc ==
    [run_status_code |-> None, poll_count |-> 0, status |-> "", items |-> None, returned |-> None,
     error |-> None, read |-> None, base |-> <<>>, results |-> <<>>, i |-> 0,
     base_from |-> "none", started |-> 0, save |-> "none", urls |-> <<>>,
     sent |-> None]

BuiltWithKeys == {"none", "your-builtwith-api-key-here", "real-key"}

Environments ==
    [apify_token : BOOLEAN, supabase : BOOLEAN, builtwith_key : BuiltWithKeys]

\* the state after start-up, in a world described by sc
InitWorld(enabled, sc) ==
    /\ scope = sc
    /\ env \in Environments
    /\ db = [u \in Users |-> IF u = "u1" THEN EmptyRow ELSE NoRow]
    /\ pc = [r \in Slots |-> IF r \in enabled THEN "idle" ELSE "off"]
    /\ req = [r \in Slots |-> NoRequest]
    /\ loc = [r \in Slots |-> InitLoc]
    /\ calls = [r \in Slots |-> NoCalls]
    /\ resp = [r \in Slots |-> <<>>]
    /\ served = 0
    /\ lookup = None

\* a world whose job service answers a status check in any way
InitSlots(enabled, requests, in_progress, records) ==
    InitWorld(enabled, [requests |-> requests, in_progress |-> in_progress,
                        records |-> records, status_outcomes |-> StatusOutcomes])

\* requests to both endpoints, one after the other; a job is in progress for
\* at most MaxInProgress status checks and produces records of two kinds
Init == InitSlots({1}, MaxRequests, MaxInProgress, {RawOpenAI, RawNoRank})

\* one request to /api/analyze; the job service answers as it likes
InitPolling == InitSlots({1}, 1, max_polls + 1, RawPool)

\* a request to one of the endpoints eps arrives
ReceiveOn(r, eps) ==
    /\ pc[r] \in {"idle", "done"}
    /\ served < scope.requests
    /\ \E ep \in eps, ws \in WebsiteLists, u \in Users :
          req' = [req EXCEPT ![r] = [endpoint |-> ep, websites |-> ws, userId |-> u]]
    /\ pc' = [pc EXCEPT ![r] = "start"]
    /\ loc' = [loc EXCEPT ![r] = InitLoc]
    /\ calls' = [calls EXCEPT ![r] = NoCalls]
    /\ resp' = [resp EXCEPT ![r] = <<>>]
    /\ served' = served + 1
    /\ UNCHANGED <<env, db, scope, lookup>>

Receive(r) == ReceiveOn(r, Endpoints)

ReceiveAnalyze(r) == ReceiveOn(r, {ANALYZE})

\* the handler returns `response`; l and c are its locals and calls at that point
Return(r, response, l, c) ==
    /\ resp' = [resp EXCEPT ![r] = <<response>>]
    /\ pc' = [pc EXCEPT ![r] = "done"]
    /\ loc' = [loc EXCEPT ![r] = l]
    /\ calls' = [calls EXCEPT ![r] = c]

\* how one "Save to Supabase" block ends: without a client it is skipped,
\* otherwise execute() returns ("ok") or raises
SaveOutcome(e, out) == IF ~e.supabase THEN "skipped" ELSE out

\* a save block without its except clause: the error of the write leaves
\* the handler
AfterSavePropagates(e, out, response) ==
    IF SaveOutcome(e, out) = "raise"
    THEN ErrorResponse(HTTPException(500, Str(OtherException)))
    ELSE response

\* lines 606-607, 637-638, 668-669 and 779-780: an error of the write is
\* printed and the handler goes on to the response it had prepared
AfterSave(e, out, response) == response

\* the calls record after one "Save to Supabase" block
Saved(c) == IF env.supabase THEN [c EXCEPT !.db_write = @ + 1] ELSE c

\* request.websites is None: never so for a request that passed validation
NoWebsitesIsNone(r) == FALSE

\* not request.websites
NoWebsites(r) == req[r].websites = <<>>

-----------------------------------------------------------------------------
(* POST /api/analyze *)

\* lines 574-575
AnalyzeReject(r) ==
    /\ pc[r] = "start" /\ req[r].endpoint = ANALYZE
    /\ NoWebsites(r)
    /\ Return(r, ErrorResponse(EmptyWebsitesError), loc[r], calls[r])
    /\ UNCHANGED <<env, db, req, served, scope, lookup>>

\* lines 587-615 and 648-677: save the mock records without their technology
\* profiles and return them
AnalyzeWithMock(r, note, l, c) ==
    LET mock_data == ClearBuiltWith(get_mock_data)
    IN \E out \in DbOutcomes :
          /\ db' = SaveResults(env, db, req[r].userId, mock_data, ANALYZE, out)
          /\ Return(r, AfterSave(env, out, AnalysisResponse(mock_data, note)),
                    [l EXCEPT !.save = SaveOutcome(env, out),
                              !.sent = SentValue(env, mock_data)], Saved(c))

\* the handler without its except clause: the error goes to the client
AnalyzeFallbackPropagates(r, e, l, c) ==
    /\ Return(r, ErrorResponse(e), [l EXCEPT !.error = Some(e)], c)
    /\ UNCHANGED db

\* lines 648-677: analyze_domains raised e
AnalyzeFallback(r, e, l, c) ==
    AnalyzeWithMock(r, Step1FallbackNote(e), [l EXCEPT !.error = Some(e)], c)

\* the handler that never takes the no-token branch
HasTokenAlways(e) == TRUE

\* lines 581 and 587: apify_token is set
HasToken(e) == e.apify_token

\* lines 581-615: no job-service token
AnalyzeNoToken(r) ==
    /\ pc[r] = "start" /\ req[r].endpoint = ANALYZE
    /\ ~NoWebsites(r)
    /\ ~HasToken(env)
    /\ AnalyzeWithMock(r, Step1Note, loc[r], calls[r])
    /\ UNCHANGED <<env, req, served, scope, lookup>>

\* lines 617-621 and 139-156: the job-creation request
AnalyzeCreateRun(r) ==
    /\ pc[r] = "start" /\ req[r].endpoint = ANALYZE
    /\ ~NoWebsites(r)
    /\ HasToken(env)
    /\ \E out \in CreateOutcomes :
          LET c == [calls[r] EXCEPT !.create = @ + 1]
              exc == CreateException(out)
              l == [loc[r] EXCEPT !.run_status_code =
                       IF out.kind = "response" THEN Some(out.status_code) ELSE None]
          IN IF exc = None
             THEN /\ pc' = [pc EXCEPT ![r] = "poll"]
                  /\ loc' = [loc EXCEPT ![r] = l]
                  /\ calls' = [calls EXCEPT ![r] = c]
                  /\ UNCHANGED <<db, resp>>
             ELSE AnalyzeFallback(r, Reraise(TheValue(exc)), l, c)
    /\ UNCHANGED <<env, req, served, scope, lookup>>

\* lines 161-183: sleep, one status check, and what follows it up to the next
\* request
AnalyzePoll(r) ==
    /\ pc[r] = "poll"
    /\ \E out \in scope.status_outcomes :
          /\ InProgress(out.status) => loc[r].poll_count < scope.in_progress
          /\ LET c == [calls[r] EXCEPT !.status = @ + 1]
                 n == loc[r].poll_count + 1
                 l == [loc[r] EXCEPT !.poll_count = n, !.status = out.status]
                 exc == IF out.kind # "response" THEN RequestException(out)
                        ELSE AfterPolling(n, out.status)
             IN IF out.kind = "response" /\ PollsAgain(n, out.status)
                THEN /\ loc' = [loc EXCEPT ![r] = l]
                     /\ calls' = [calls EXCEPT ![r] = c]
                     /\ UNCHANGED <<db, pc, resp>>
                ELSE IF exc = None
                     THEN /\ loc' = [loc EXCEPT ![r] = l]
                          /\ calls' = [calls EXCEPT ![r] = c]
                          /\ pc' = [pc EXCEPT ![r] = "fetch"]
                          /\ UNCHANGED <<db, resp>>
                     ELSE AnalyzeFallback(r, Reraise(TheValue(exc)), l, c)
    /\ UNCHANGED <<env, req, served, scope, lookup>>

\* lines 186-215 and 623-646: the dataset request, the mapping of its
\* records, the save and the response
AnalyzeFetch(r) ==
    /\ pc[r] = "fetch"
    /\ \E out \in DatasetOutcomes(scope.records) :
          LET c == [calls[r] EXCEPT !.dataset = @ + 1]
              exc == FetchException(out)
              returned == TransformResults(out.items)
              results == ClearBuiltWith(returned)
              l == [loc[r] EXCEPT !.items = Some(out.items), !.returned = Some(returned)]
          IN IF exc = None
             THEN \E dbout \in DbOutcomes :
                    /\ db' = SaveResults(env, db, req[r].userId, results, ANALYZE, dbout)
                    /\ Return(r, AfterSave(env, dbout, AnalysisResponse(results, Step1Note)),
                              [l EXCEPT !.save = SaveOutcome(env, dbout),
                                        !.sent = SentValue(env, results)], Saved(c))
             ELSE AnalyzeFallback(r, Reraise(TheValue(exc)), loc[r], c)
    /\ UNCHANGED <<env, req, served, scope, lookup>>

-----------------------------------------------------------------------------
(* POST /api/analyze-tech-stack *)

\* lines 682-683
TechStackReject(r) ==
    /\ pc[r] = "start" /\ req[r].endpoint = TECH_STACK
    /\ NoWebsites(r)
    /\ Return(r, ErrorResponse(EmptyWebsitesError), loc[r], calls[r])
    /\ UNCHANGED <<env, db, req, served, scope, lookup>>

\* lines 697-708: existing_data, None or the decoded column
ExistingData(e, d, u, out) ==
    IF ~e.supabase \/ out # "ok" THEN None
    ELSE LET data == DbSelect(d, u)
         IN IF data # <<>> /\ data[1].similarweb_result # <<>>
            THEN Some(json_loads(data[1].similarweb_result[1]))
            ELSE None

\* line 711: not existing_data
NotExisting(existing_data) == existing_data = None \/ TheValue(existing_data) = <<>>

\* lines 721-730: the stored dicts turned back into objects
RECURSIVE ConvertLoop(_, _)
ConvertLoop(existing, results) ==
    IF existing = <<>> THEN results
    ELSE ConvertLoop(Tail(existing),
                     results \o ApifyResult(DictPop(Head(existing), "builtwith_result")))

\* lines 711-730: the records the enrichment starts from
BaseResults(existing_data) ==
    IF NotExisting(existing_data)
    THEN ClearBuiltWith(get_mock_data)
    ELSE ConvertLoop(TheValue(existing_data), <<>>)

\* the requested websites ignored: the domain always derived from the name
WebsiteUrlFromName(websites, results, i) ==
    StrRemove(StrLower(results[i].name), S_space) \o S_dotcom

\* lines 738-742: the URL looked up for record i (counted from 1)
WebsiteUrl(websites, results, i) ==
    IF i - 1 < Len(websites)
    THEN websites[i]
    ELSE StrRemove(StrLower(results[i].name), S_space) \o S_dotcom

\* lines 783-786
TotalTechnologies(results) ==
    SumSeq([i \in 1..Len(results) |->
              IF results[i].builtwith_result # None
              THEN Len(TheValue(results[i].builtwith_result).technologies)
              ELSE 0])

\* lines 769-798: save the enriched records and return them
TechStackFinish(r, results, l, c) ==
    \E out \in DbOutcomes :
       /\ db' = SaveResults(env, db, req[r].userId, results, TECH_STACK, out)
       /\ Return(r, AfterSave(env, out,
                               AnalysisResponse(results,
                                                Step2Note(TotalTechnologies(results),
                                                          Len(results)))),
                 [l EXCEPT !.save = SaveOutcome(env, out),
                           !.sent = SentValue(env, results)], Saved(c))

\* lines 693-732: read the stored data and choose the records to enrich
TechStackStart(r) ==
    /\ pc[r] = "start" /\ req[r].endpoint = TECH_STACK
    /\ ~NoWebsites(r)
    /\ \E out \in DbOutcomes :
          LET u == req[r].userId
              existing_data == ExistingData(env, db, u, out)
              results == BaseResults(existing_data)
              c == IF env.supabase THEN [calls[r] EXCEPT !.db_read = @ + 1] ELSE calls[r]
              l == [loc[r] EXCEPT
                      !.read = IF existing_data = None THEN None
                               ELSE Some([by |-> db[u].written_by,
                                          written |-> db[u].written]),
                      !.base = results, !.results = results, !.i = 0,
                      !.base_from = IF NotExisting(existing_data) THEN "mock" ELSE "stored"]
          IN IF results = <<>>
             THEN TechStackFinish(r, results, l, c)
             ELSE /\ loc' = [loc EXCEPT ![r] = l]
                  /\ calls' = [calls EXCEPT ![r] = c]
                  /\ pc' = [pc EXCEPT ![r] = "enrich"]
                  /\ UNCHANGED <<db, resp>>
    /\ UNCHANGED <<env, req, served, scope, lookup>>

\* a loop that issues its lookups without waiting for the one before
CanStartLookupFanOut(started, completed) == TRUE

\* lines 736 and 751: the loop awaits each lookup, so the next one is issued
\* when every lookup issued so far has returned
CanStartLookup(started, completed) == started = completed

\* lines 736-751: the loop reaches the call of analyze_domain for its next
\* record
TechStackLookup(r) ==
    /\ pc[r] = "enrich"
    /\ loc[r].started < Len(loc[r].results)
    /\ CanStartLookup(loc[r].started, loc[r].i)
    /\ loc' = [loc EXCEPT ![r].started = @ + 1,
                          ![r].urls = Append(@, WebsiteUrl(req[r].websites, loc[r].results,
                                                           loc[r].started + 1))]
    /\ calls' = [calls EXCEPT ![r].lookup = @ + 1]
    /\ UNCHANGED <<db, pc, resp>>
    /\ UNCHANGED <<env, req, served, scope, lookup>>

\* lines 750-764: what one lookup leaves in builtwith_result
EnrichOne(api_key, website_url, out) ==
    IF LookupRaises(api_key, out)
    THEN BuiltWithResult(website_url, <<>>)
    ELSE analyze_domain(api_key, website_url, out)

\* lines 751-764: the lookup in flight returns, and lines 769-798 after the
\* last one
TechStackEnrich(r) ==
    /\ pc[r] = "enrich"
    /\ loc[r].i < loc[r].started
    /\ \E out \in BuiltWithOutcomes :
          LET i == loc[r].i + 1
              website_url == loc[r].urls[i]
              builtwith_result == EnrichOne(env.builtwith_key, website_url, out)
              results == [loc[r].results EXCEPT
                             ![i].builtwith_result = Some(builtwith_result)]
              l == [loc[r] EXCEPT !.results = results, !.i = i]
              c == [calls[r] EXCEPT
                       !.builtwith = IF KeyUsable(env.builtwith_key) THEN @ + 1 ELSE @]
          IN IF i < Len(results)
             THEN /\ loc' = [loc EXCEPT ![r] = l]
                  /\ calls' = [calls EXCEPT ![r] = c]
                  /\ UNCHANGED <<db, pc, resp>>
             ELSE TechStackFinish(r, results, l, c)
    /\ UNCHANGED <<env, req, served, scope, lookup>>

-----------------------------------------------------------------------------

Next ==
    \E r \in Slots :
       \/ Receive(r)
       \/ AnalyzeReject(r)
       \/ AnalyzeNoToken(r)
       \/ AnalyzeCreateRun(r)
       \/ AnalyzePoll(r)
       \/ AnalyzeFetch(r)
       \/ TechStackReject(r)
       \/ TechStackStart(r)
       \/ TechStackLookup(r)
       \/ TechStackEnrich(r)

Spec == Init /\ [][Next]_vars

NextPolling ==
    \E r \in Slots :
       \/ ReceiveAnalyze(r)
       \/ AnalyzeReject(r)
       \/ AnalyzeNoToken(r)
       \/ AnalyzeCreateRun(r)
       \/ AnalyzePoll(r)
       \/ AnalyzeFetch(r)

SpecPolling == InitPolling /\ [][NextPolling]_vars

\* one request to /api/analyze, in a world whose job service answers as it
\* likes and in one where it reports an in-progress status for ever
InitPollingLive ==
    \E status_outcomes \in {StatusOutcomes, InProgressForever} :
       InitWorld({1}, [requests |-> 1, in_progress |-> max_polls + 1,
                       records |-> {RawOpenAI}, status_outcomes |-> status_outcomes])

\* the next step of the handler of slot r
HandlerStep(r) ==
    \/ AnalyzeReject(r)
    \/ AnalyzeNoToken(r)
    \/ AnalyzeCreateRun(r)
    \/ AnalyzePoll(r)
    \/ AnalyzeFetch(r)

\* every external call is made with a timeout (lines 146, 168, 191) and the
\* sleep of line 162 ends, so a handler that can take its next step takes it
FairPolling == \A r \in Slots : WF_vars(HandlerStep(r))

SpecPollingLive == InitPollingLive /\ [][NextPolling]_vars /\ FairPolling

\* requests served concurrently, one for each slot: the handlers are
\* coroutines, and two of them interleave at every await, that is between
\* any two steps below.  The database client is configured and the lookup
\* client has no key; a job ends by its first status check.
InitConcurrent ==
    /\ InitSlots(Slots, Cardinality(Slots), 0, {RawOpenAI})
    /\ env.supabase /\ env.builtwith_key = "none"

SpecConcurrent == InitConcurrent /\ [][Next]_vars

-----------------------------------------------------------------------------
(* BuiltWithClient called on its own, as test_builtwith_integration.py does *)

\* the domains passed in: the keys of the mock table, URLs with a scheme, a
\* "www." or both, a domain derived from a record's name, a key of the table
\* in another case, and a name with "www." inside it
DomainInputs ==
    {D_linkedin, D_github, D_medium, D_facebook, D_google, U_github, U_medium,
     U_facebook, U_google, D_openai, D_GitHub, U_awww}

\* no request is served; the client is built from BUILTWITH_API_KEY
InitLookup ==
    /\ InitSlots({}, 0, 0, {})
    /\ ~env.apify_token /\ ~env.supabase

\* BuiltWithClient(key).analyze_domain(domain), lines 346-403
LookupCall ==
    /\ \E domain \in DomainInputs, out \in BuiltWithOutcomes :
          lookup' = Some([fn |-> "analyze_domain",
                          api_key |-> env.builtwith_key,
                          domain |-> domain,
                          out |-> out,
                          clean_domain |-> CleanDomain(domain),
                          raised |-> LookupRaises(env.builtwith_key, out),
                          result |-> IF LookupRaises(env.builtwith_key, out) THEN None
                                     ELSE Some(analyze_domain(env.builtwith_key, domain, out))])
    /\ UNCHANGED <<env, db, pc, req, loc, calls, resp, served, scope>>

\* BuiltWithClient(key)._get_mock_builtwith_data(domain), lines 493-557
MockCall ==
    /\ \E domain \in DomainInputs :
          lookup' = Some([fn |-> "_get_mock_builtwith_data",
                          domain |-> domain,
                          result |-> MockBuiltWithData(domain)])
    /\ UNCHANGED <<env, db, pc, req, loc, calls, resp, served, scope>>

NextLookup == LookupCall \/ MockCall

SpecLookup == InitLookup /\ [][NextLookup]_vars

-----------------------------------------------------------------------------
(* Properties *)

Done(r) == pc[r] = "done"
Response(r) == resp[r][1]
InProgressStatuses == {"RUNNING", "READY"}

\* C1: a request to either endpoint whose websites list is empty is answered
\* with HTTP 400, and the handler issues no job-service request, no
\* enrichment lookup and no database read or write for it.
C1_EmptyListRejected ==
    \A r \in Slots :
       (req[r].endpoint \in Endpoints /\ req[r].websites = <<>>) =>
          /\ pc[r] \in {"start", "done"}
          /\ calls[r] = NoCalls
          /\ Done(r) => Response(r).status_code = 400 /\ ~Response(r).success

C1_Witness ==
    \E r \in Slots :
       /\ Done(r) /\ req[r].endpoint = TECH_STACK /\ req[r].websites = <<>>
       /\ Response(r).status_code = 400
       /\ served = 2 /\ db["u1"].similarweb_result # <<>>

\* C2: after a status check that returned a status other than RUNNING and
\* READY the handler is not about to issue another status check; after one
\* that returned RUNNING or READY, with fewer than max_polls checks made, it
\* is.
C2_PollingStopsOnTerminal ==
    \A r \in Slots :
       (loc[r].poll_count > 0 /\ calls[r].status = loc[r].poll_count) =>
          /\ loc[r].status \notin InProgressStatuses => pc[r] # "poll"
          /\ (loc[r].status \in InProgressStatuses /\ loc[r].poll_count < max_polls)
                => pc[r] = "poll"

C2_Witness ==
    \E r \in Slots :
       /\ calls[r].status = 3 /\ loc[r].status = "ABORTING" /\ Done(r)

\* C3: one job gets at most max_polls status checks, and the attempt counter
\* never exceeds max_polls.
C3_AtMostMaxPolls ==
    \A r \in Slots : calls[r].status <= max_polls /\ loc[r].poll_count <= max_polls

C3_Witness ==
    \E r \in Slots : calls[r].status = max_polls /\ loc[r].poll_count = max_polls

\* C4: when the job is still in progress after max_polls status checks, the
\* error the caller of analyze_domains receives is HTTP 504 "Actor run timed
\* out", and the dataset is never fetched.
C4_TimeoutIs504 ==
    \A r \in Slots :
       (Done(r) /\ loc[r].poll_count = max_polls
          /\ loc[r].status \in InProgressStatuses) =>
          /\ loc[r].error = Some(HTTPException(504, Detail("Actor run timed out")))
          /\ calls[r].dataset = 0

\* C5: the dataset is requested only after a status check returned SUCCEEDED;
\* when polling stops on another status the call ends in an error and no
\* dataset request is made.
C5_FetchOnlyAfterSucceeded ==
    \A r \in Slots :
       /\ (pc[r] = "fetch" \/ calls[r].dataset > 0) => loc[r].status = "SUCCEEDED"
       /\ (loc[r].status \in JobStatuses \ (InProgressStatuses \cup {"SUCCEEDED"})) =>
             /\ Done(r)
             /\ loc[r].error # None
             /\ calls[r].dataset = 0

C5_Witness ==
    \E r \in Slots :
       /\ Done(r) /\ loc[r].status = "TIMED-OUT" /\ calls[r].status = 2
       /\ loc[r].error # None /\ calls[r].dataset = 0

\* C6: when the job-creation request returns a status code other than 201,
\* analyze_domains ends in an error, and no status check and no dataset
\* request is made.
C6_CreationRejected ==
    \A r \in Slots :
       (loc[r].run_status_code # None /\ loc[r].run_status_code # Some(201)) =>
          /\ Done(r)
          /\ loc[r].error # None
          /\ calls[r].status = 0
          /\ calls[r].dataset = 0

C6_Witness ==
    \E r \in Slots :
       /\ Done(r) /\ loc[r].run_status_code = Some(200) /\ calls[r].create = 1
       /\ loc[r].error # None

\* C7: the list analyze_domains returns is the subsequence, in the original
\* order, of the dataset's records that pass validation; records that fail
\* are dropped without failing the call, also when all of them fail.
Validates(d) == ApifyResult(d) # <<>>

ValidSubsequence(items) ==
    LET kept == SelectSeq(items, Validates)
    IN [i \in 1..Len(kept) |-> ApifyResult(kept[i])[1]]

C7_ValidSubsequenceReturned ==
    \A r \in Slots :
       loc[r].items # None =>
          /\ loc[r].returned = Some(ValidSubsequence(TheValue(loc[r].items)))
          /\ loc[r].error = None
          /\ Done(r) /\ Response(r).success
          /\ Response(r).count = Len(ValidSubsequence(TheValue(loc[r].items)))

C7_Witness ==
    \E r \in Slots :
       /\ loc[r].items = Some(<<RawNoRank, RawNullName>>)
       /\ loc[r].returned = Some(<<>>)
       /\ Done(r) /\ Response(r).success

MentionsMock(words) == \E i \in 1..Len(words) : words[i] \in {"mock", "Mock", "MOCK"}

Scenario9(r) ==
    /\ Done(r)
    /\ req[r] = [endpoint |-> ANALYZE, websites |-> <<U_github>>, userId |-> "u1"]
    /\ ~env.apify_token

\* C9 as stated: success=true, count=1, a note mentioning mock data, and the
\* GitHub mock record with globalRank 64.
C9_Original ==
    \A r \in Slots :
       Scenario9(r) =>
          /\ Response(r).success
          /\ Response(r).count = 1
          /\ MentionsMock(Response(r).note.words)
          /\ \E i \in 1..Len(Response(r).data) :
                /\ Response(r).data[i].name = N_GitHub
                /\ Response(r).data[i].globalRank = 64

\* C9 as amended: success=true, count=2 (the LinkedIn and the GitHub mock
\* records, in that order), the step-1 note, which does not mention mock data,
\* and the GitHub mock record with globalRank 64.
C9_Amended ==
    \A r \in Slots :
       Scenario9(r) =>
          /\ Response(r).success
          /\ Response(r).count = 2
          /\ Len(Response(r).data) = 2
          /\ Response(r).note = Step1Note
          /\ ~MentionsMock(Response(r).note.words)
          /\ Response(r).data[1].name = N_LinkedIn
          /\ Response(r).data[2].name = N_GitHub
          /\ Response(r).data[2].globalRank = 64

C9_Witness == \E r \in Slots : Scenario9(r) /\ Response(r).count = 2

\* C10: when the tech-stack handler reads back, for the same user, a result
\* set that /api/analyze wrote, the records it goes on to enrich are the
\* written ones: as many, in the same order, equal in every field but the
\* technology profile.  This for every result set, the empty one included.
C10_RoundTrip ==
    \A r \in Slots :
       (req[r].endpoint = TECH_STACK /\ loc[r].read # None
          /\ TheValue(loc[r].read).by = ANALYZE) =>
          LET written == TheValue(loc[r].read).written
          IN /\ Len(loc[r].base) = Len(written)
             /\ ClearBuiltWith(loc[r].base) = ClearBuiltWith(written)

\* the text a handler writes for the records it returns
Serialized(items) == json_dumps([i \in 1..Len(items) |-> model_dump(items[i])])

\* the request in slot r has returned and its write ended without an error
WriteCompleted(r) == Done(r) /\ loc[r].save = "ok"

\* C11: the write is an upsert.  Once a handler's write for user u has ended
\* without an error, the table holds a row for u whose similarweb_result is
\* the serialized result list, whether or not u had a row before.
C11_Upsert ==
    \A r \in Slots :
       WriteCompleted(r) =>
          /\ db[req[r].userId].exists
          /\ db[req[r].userId].similarweb_result = << Serialized(Response(r).data) >>

\* the response the handler of slot r had prepared when it reached its save
\* block, from its locals at that point
Prepared(r) ==
    IF req[r].endpoint = TECH_STACK
    THEN AnalysisResponse(loc[r].results,
                          Step2Note(TotalTechnologies(loc[r].results), Len(loc[r].results)))
    ELSE IF loc[r].error # None
         THEN AnalysisResponse(ClearBuiltWith(get_mock_data),
                               Step1FallbackNote(TheValue(loc[r].error)))
         ELSE IF loc[r].returned # None
              THEN AnalysisResponse(ClearBuiltWith(TheValue(loc[r].returned)), Step1Note)
              ELSE AnalysisResponse(ClearBuiltWith(get_mock_data), Step1Note)

Looked == lookup # None /\ TheValue(lookup).fn = "analyze_domain"

\* the ways a lookup fails: no usable key, a timeout, another exception, a
\* status other than 200, or a body from which no technology is parsed
LookupFailed(c) ==
    \/ c.api_key \in {"none", "your-builtwith-api-key-here"}
    \/ c.out.kind \in {"timeout", "error"}
    \/ c.out.kind = "response" /\ c.out.status_code # 200
    \/ c.out.kind = "response" /\ c.out.data \in {BW_Documented, BW_NoResults, BW_BadResult}

\* C13: analyze_domain never raises, and whenever the lookup fails (no
\* usable key, timeout, non-200 status, any other exception, nothing parsed)
\* it returns the mock-table result for the cleaned domain.
C13_LookupNeverRaises ==
    Looked =>
       LET c == TheValue(lookup)
       IN /\ ~c.raised
          /\ c.result # None
          /\ LookupFailed(c) => TheValue(c.result) = MockBuiltWithData(c.clean_domain)

C13_Witness ==
    /\ Looked
    /\ TheValue(lookup).api_key = "real-key"
    /\ TheValue(lookup).out.kind = "error"
    /\ TheValue(lookup).domain = U_github
    /\ TheValue(lookup).result = Some(BuiltWithResult(D_github, GitHubTechnologies))

\* the last direct call was of the mock fallback
Mocked == lookup # None /\ TheValue(lookup).fn = "_get_mock_builtwith_data"

\* the names of the first and the last technology of a list
Ends(technologies) == <<technologies[1].name, technologies[Len(technologies)].name>>

\* C14: for each key of the mock table the mock fallback returns that key's
\* list, for any other domain the generic default list, and the domain field
\* of the result is the domain passed in.
C14_MockTable ==
    Mocked =>
       LET c == TheValue(lookup)
           technologies == c.result.technologies
       IN /\ c.result.domain = c.domain
          /\ c.domain = D_linkedin =>
                /\ technologies = LinkedInTechnologies
                /\ Len(technologies) = 8 /\ Ends(technologies) = <<"React", "jQuery">>
          /\ c.domain = D_github =>
                /\ technologies = GitHubTechnologies
                /\ Len(technologies) = 8
                /\ Ends(technologies) = <<"Ruby on Rails", "JavaScript">>
          /\ c.domain = D_medium =>
                /\ technologies = MediumTechnologies
                /\ Len(technologies) = 8 /\ Ends(technologies) = <<"Node.js", "TypeScript">>
          /\ c.domain = D_facebook =>
                /\ technologies = FacebookTechnologies
                /\ Len(technologies) = 8 /\ Ends(technologies) = <<"React", "Cassandra">>
          /\ c.domain = D_google =>
                /\ technologies = GoogleTechnologies
                /\ Len(technologies) = 8 /\ Ends(technologies) = <<"Go", "Protocol Buffers">>
          /\ c.domain \notin {D_linkedin, D_github, D_medium, D_facebook, D_google} =>
                /\ technologies = DefaultTechnologies
                /\ Len(technologies) = 5 /\ Ends(technologies) = <<"JavaScript", "Cloudflare">>

C14_Witness ==
    /\ Mocked
    /\ TheValue(lookup).domain = D_medium
    /\ TheValue(lookup).result = BuiltWithResult(D_medium, MediumTechnologies)

StartsWith(s, prefix) == Len(s) >= Len(prefix) /\ SubSeq(s, 1, Len(prefix)) = prefix

\* s without the prefix it starts with, if it starts with it
StripLeading(s, prefix) ==
    IF StartsWith(s, prefix) THEN SubSeq(s, Len(prefix) + 1, Len(s)) ELSE s

\* the input with a leading scheme and then a leading "www." taken off
LeadingStripped(domain) ==
    StripLeading(StripLeading(StripLeading(domain, S_https), S_http), S_www)

\* C15: the key analyze_domain looks up is the input with its leading scheme
\* and its leading "www." stripped and nothing else changed, for every input.
C15_OnlyLeadingPrefixes ==
    Looked => TheValue(lookup).clean_domain = LeadingStripped(TheValue(lookup).domain)

\* the step is the one in which the request of slot r returns
Returns(r) == pc[r] # "done" /\ pc'[r] = "done"

\* C16: writes are last-write-wins per user id, under any interleaving of
\* concurrent requests.  A row changes only in the step in which a request
\* for that user writes, and then to that request's result list; a write
\* that ends without an error on an existing row always lands, whatever the
\* row held and whatever the request had read before; and a request for one
\* user never changes the row of another.
C16_LastWriteWins ==
    [][\A u \in Users :
          /\ db'[u] # db[u] =>
                \E r \in Slots :
                   /\ Returns(r) /\ req[r].userId = u
                   /\ db'[u].similarweb_result = << Serialized(resp'[r][1].data) >>
          /\ \A r \in Slots :
                (Returns(r) /\ req[r].userId = u /\ loc'[r].save = "ok" /\ db[u].exists) =>
                   db'[u].similarweb_result = << Serialized(resp'[r][1].data) >>
      ]_vars

\* two concurrent requests for the same user have both written: the
\* tech-stack request chose its base before the other one stored a record,
\* wrote after it, and the row holds the tech-stack request's list
C16_Witness ==
    \E r1, r2 \in Slots :
       /\ r1 # r2 /\ WriteCompleted(r1) /\ WriteCompleted(r2)
       /\ req[r1].userId = req[r2].userId
       /\ req[r1].endpoint = TECH_STACK /\ loc[r1].base_from = "mock"
       /\ req[r2].endpoint = ANALYZE /\ Response(r2).count = 1
       /\ db[req[r1].userId].written_by = TECH_STACK
       /\ db[req[r1].userId].similarweb_result = << Serialized(Response(r1).data) >>
       /\ Response(r1).data # Response(r2).data

\* how many of the records stored as `written` pass validation when read back
StoredValid(written) ==
    LET stored == json_loads(Serialized(written))
    IN Cardinality({i \in 1..Len(stored) :
                       Validates(DictPop(stored[i], "builtwith_result"))})

\* C17: the tech-stack handler takes the mock set as its base exactly when
\* no stored data is available (no client, no row, an empty column, a read
\* error); otherwise its base is the stored records, and the count of its
\* response is the number of stored records that pass validation.
C17_MockBaseIffNothingStored ==
    \A r \in Slots :
       (req[r].endpoint = TECH_STACK /\ loc[r].base_from # "none") =>
          /\ loc[r].base_from = "mock" <=> loc[r].read = None
          /\ loc[r].read # None =>
                /\ ClearBuiltWith(loc[r].base) = ClearBuiltWith(TheValue(loc[r].read).written)
                /\ Done(r) => Response(r).count = StoredValid(TheValue(loc[r].read).written)

\* C18: without APIFY_API_TOKEN, /api/analyze makes no request to the job
\* service at all (no creation, no status check, no dataset fetch) and
\* returns the mock set with success=true.
C18_NoTokenNoJobRequest ==
    \A r \in Slots :
       (req[r].endpoint = ANALYZE /\ ~env.apify_token) =>
          /\ calls[r].create = 0 /\ calls[r].status = 0 /\ calls[r].dataset = 0
          /\ pc[r] \notin {"poll", "fetch"}
          /\ (Done(r) /\ req[r].websites # <<>>) =>
                /\ Response(r).success
                /\ Response(r).status_code = 200
                /\ Response(r).count = 2
                /\ Response(r).data = ClearBuiltWith(get_mock_data)
                /\ Response(r).data[1].name = N_LinkedIn
                /\ Response(r).data[2].name = N_GitHub

C18_Witness ==
    \E r \in Slots :
       /\ req[r].endpoint = ANALYZE /\ ~env.apify_token /\ Done(r)
       /\ req[r].websites = <<U_github>>
       /\ Response(r).success /\ Response(r).count = 2

\* the lookups of the request in slot r that were issued and have not returned
InFlight(r) == loc[r].started - loc[r].i

\* C19: the enrichment of one tech-stack request is strictly sequential.  At
\* most one of its lookups is in flight at any time, so lookup i+1 is never
\* issued before lookup i has returned.
C19_SequentialLookups ==
    \A r \in Slots :
       /\ InFlight(r) \in {0, 1}
       /\ calls[r].lookup = loc[r].started

C19_Witness ==
    \E r \in Slots :
       /\ pc[r] = "enrich" /\ KeyUsable(env.builtwith_key)
       /\ loc[r].started = 2 /\ loc[r].i = 1
       /\ loc[r].results[1].builtwith_result # None
       /\ loc[r].results[2].builtwith_result = None

\* C20: the timeout is raised only when the job is still in progress after
\* the last permitted status check.  If a permitted check, the 60th included,
\* returns SUCCEEDED, analyze_domains goes on to fetch the dataset.
C20_SucceededIsFetched ==
    \A r \in Slots :
       (req[r].endpoint = ANALYZE /\ loc[r].status = "SUCCEEDED"
          /\ loc[r].poll_count <= max_polls) =>
          pc[r] = "fetch" \/ calls[r].dataset = 1

\* C21: every /api/analyze request with a non-empty websites list eventually
\* returns a response, given that each external call returns or times out;
\* the polling loop ends even when the job service reports an in-progress
\* status for ever.
C21_AnalyzeTerminates ==
    \A r \in Slots :
       (pc[r] = "start" /\ req[r].endpoint = ANALYZE /\ req[r].websites # <<>>)
          ~> (Done(r) /\ resp[r] # <<>>)

\* the request returned after a job that was in progress at every one of
\* the permitted checks, in the world where it would be so for ever
C21_Witness ==
    \E r \in Slots :
       /\ scope.status_outcomes = InProgressForever
       /\ Done(r) /\ req[r].websites # <<>>
       /\ calls[r].status = max_polls
       /\ InProgress(loc[r].status)
       /\ Response(r).success

\* the domain derived from a record's name: lowercased, spaces removed,
\* ".com" appended
DerivedDomain(name) == StrRemove(StrLower(name), S_space) \o S_dotcom

\* C22: in /api/analyze-tech-stack the profile attached to the i-th record
\* is the enrichment of the i-th requested website when there is one, and
\* otherwise of the domain derived from the record's name.  There are as many
\* lookups as records, so requested websites beyond the records are never
\* looked up.
C22_LookupPerRecord ==
    \A r \in Slots :
       (Done(r) /\ req[r].endpoint = TECH_STACK /\ req[r].websites # <<>>) =>
          LET data == Response(r).data
              websites == req[r].websites
          IN /\ calls[r].lookup = Len(data)
             /\ Len(loc[r].urls) = Len(data)
             /\ \A i \in 1..Len(data) :
                   /\ loc[r].urls[i] = IF i <= Len(websites) THEN websites[i]
                                        ELSE DerivedDomain(data[i].name)
                   /\ data[i].builtwith_result # None
                   /\ TheValue(data[i].builtwith_result).domain = CleanDomain(loc[r].urls[i])

\* one website requested, two records stored by /api/analyze: the second
\* lookup is of the domain derived from the name "Open AI"
C22_Witness ==
    \E r \in Slots :
       /\ Done(r) /\ req[r].endpoint = TECH_STACK
       /\ req[r].websites = <<U_github>>
       /\ loc[r].base_from = "stored"
       /\ loc[r].urls = <<U_github, D_openai>>
       /\ Response(r).data[2].name = N_OpenAI
       /\ TheValue(Response(r).data[2].builtwith_result).domain = D_openai

\* the request in slot r went to /api/analyze, had websites and has returned
AnalyzeCompleted(r) == Done(r) /\ req[r].endpoint = ANALYZE /\ req[r].websites # <<>>

\* the value stored for the user of slot r, decoded
StoredFor(r) == json_loads(db[req[r].userId].similarweb_result[1])

C24_WrittenIsReturned ==
    \A r \in Slots :
       WriteCompleted(r) =>
          /\ loc[r].sent = Some(Serialized(Response(r).data))
          /\ json_loads(TheValue(loc[r].sent)) =
                [i \in 1..Len(Response(r).data) |-> model_dump(Response(r).data[i])]
          /\ db[req[r].userId].exists =>
                /\ db[req[r].userId].similarweb_result = << TheValue(loc[r].sent) >>
                /\ db[req[r].userId].written = Response(r).data

\* a tech-stack request stored and returned two records with their profiles
C24_Witness ==
    \E r \in Slots :
       /\ WriteCompleted(r) /\ req[r].endpoint = TECH_STACK
       /\ db[req[r].userId].exists
       /\ Len(Response(r).data) = 2
       /\ Response(r).data[2].builtwith_result # None
       /\ db[req[r].userId].written = Response(r).data

\* C25: on every path analyze_domain returns a result whose technologies
\* list is not empty and whose domain field is the cleaned domain; a response
\* from which no technology is parsed is replaced by the mock profile, never
\* returned as an empty profile.
C25_ProfileNeverEmpty ==
    Looked =>
       LET c == TheValue(lookup)
       IN /\ c.result # None
          /\ Len(TheValue(c.result).technologies) > 0
          /\ TheValue(c.result).domain = c.clean_domain
          /\ \A i \in 1..Len(TheValue(c.result).technologies) :
                DOMAIN TheValue(c.result).technologies[i] = {"name", "tag"}

\* the service answered 200 for "openai.com" with a body that has no
\* Results, and the default mock profile came back
C25_Witness ==
    /\ Looked
    /\ TheValue(lookup).api_key = "real-key"
    /\ TheValue(lookup).domain = D_openai
    /\ TheValue(lookup).out = [kind |-> "response", status_code |-> 200, data |-> BW_NoResults]
    /\ TheValue(lookup).result = Some(BuiltWithResult(D_openai, DefaultTechnologies))

====
